---- MODULE Spec2Model ----
(***************************************************************************)
(* Model of the batch scheduler of VideoCaptioner                          *)
(* (app/view/batch_process_interface.py): BatchProcessInterface, the list  *)
(* of TaskInfoCard objects it drives, the worker threads the cards start   *)
(* and the Qt signal connections between them.                             *)
(*                                                                         *)
(* All handlers run on the GUI thread, one at a time, so every handler is  *)
(* one atomic action.  A handler is written as an operator from a record   *)
(* of the whole state (plus the inputs of the call) to the record after    *)
(* the handler; the action assigns the fields of the result.  Widget       *)
(* presentation (InfoBar texts, progress ring, badges, tooltips) carries   *)
(* no control state and is left out; the enabled flags of the buttons are  *)
(* kept.  The worker threads (app/core/thread) are outside the file; they  *)
(* are modelled by what the specification says of them: a running worker   *)
(* moves its task through the in-progress statuses and ends with one        *)
(* finished or one error signal.                                           *)
(***************************************************************************)
EXTENDS Integers, Sequences, FiniteSets, TLC

\* ---------------------------------------------------------------- bounds
\* The work of one behaviour of Spec: creation threads started, worker
\* threads started and user commands given on the list and on its cards.
MaxWork  == 4
\* The same for SpecDeep, which starts from a list of three Jobs.
DeepWork == 5
\* The user commands on the subtitle interface in one behaviour of
\* SpecIntake, and the longest selection one file dialog returns.
MaxIntake == 3
MaxSelect == 2
\* The entries of the subtitle document a behaviour of SpecDoc starts
\* from, and the operations of the user and the partial updates of a
\* thread on the document in one behaviour.
MaxRows  == 4
MaxEdits == 1
\* The items of one partial update (the update signal of a thread).
MaxUpdate == 2

\* ------------------------------------------------------------- constants
\* The files offered to create_task, each with the task type it is added as.
Files     == {[path |-> 1, type |-> "TRANSCRIBE"], [path |-> 2, type |-> "SUBTITLE"]}
Running   == {"TRANSCRIBING", "OPTIMIZING", "GENERATING"}
Terminal  == {"COMPLETED", "FAILED"}
Statuses  == {"PENDING"} \cup Running \cup Terminal
TodoWhenDone == {"NOTHING", "EXIT", "SUSPEND", "SHUTDOWN"}
\* The subtitle files offered to the subtitle interface, and those of them
\* that from_subtitle_file cannot read (it raises).
SubtitleFiles == {1, 2, 3}
Unreadable    == {3}

VARIABLES
    task_cards,        \* BatchProcessInterface.task_cards (tasks is the same list, by card)
    removed_cards,     \* the cards remove_task_card took from the list that still
                       \* have a report queued or a worker running: deleteLater
                       \* deletes a card when control is back in the event loop,
                       \* after the calls queued before it, and stops no thread
                       \* (see Removed)
    create_threads,    \* BatchProcessInterface.create_threads: the creation threads
                       \* listed; added: the add_task_card slot of the thread's
                       \* finished signal has run, its cleanup_thread slot has not
    processing,        \* BatchProcessInterface.processing
    start_all_button,  \* enabled flags of the four controls
    cancel_button,
    add_file_button,
    clear_all_button,
    task_type_combo,   \* enabled flag of the task type selector
    host,              \* "running", or "aborted" once Qt has ended the process
    budget,            \* the work (see MaxWork) still allowed
    batch_fin,         \* on_batch_finished calls in the batch under way, -1 when
                       \* no batch is: before start_batch_process has run on a
                       \* list with cards, and after cancel_batch_process
    ev,                \* what the last handler did, in order
    sub,               \* the SubtitleOptimizationInterface (see NewInterface)
    model              \* its SubtitleTableModel (see NewModel)

vars == <<task_cards, removed_cards, create_threads, processing, start_all_button, cancel_button,
          add_file_button, clear_all_button, task_type_combo,
          host, budget, batch_fin, ev, sub, model>>

\* ------------------------------------------------------------ the state
\* A card and its task.  running: the thread the card references
\* (transcript_thread or subtitle_thread, by task type) isRunning();
\* orphans: threads of this card still running whose reference was
\* overwritten by a later start(); qfin, qerr: finished/error signals of
\* its threads queued for the GUI thread; nfin, nerr: connections of
\* card.finished to on_task_finished and of card.error to on_task_error;
\* owed: the task was not Completed or Failed when the batch started and
\* the scheduler has not started it since.
NewCard(path, type) ==
    [path |-> path, type |-> type, status |-> "PENDING",
     running |-> FALSE, orphans |-> 0, qfin |-> 0, qerr |-> 0,
     nfin |-> 0, nerr |-> 0, owed |-> FALSE]

Event(op, card, snap) == [op |-> op, card |-> card, snap |-> snap]

Log(S, op, card) ==
    [S EXCEPT !.ev = Append(@, Event(op, card, <<>>))]

State ==
    [task_cards |-> task_cards, removed_cards |-> removed_cards,
     create_threads |-> create_threads,
     processing |-> processing, start_all_button |-> start_all_button,
     cancel_button |-> cancel_button, add_file_button |-> add_file_button,
     clear_all_button |-> clear_all_button, task_type_combo |-> task_type_combo,
     host |-> host, budget |-> budget, batch_fin |-> batch_fin, ev |-> <<>>,
     todo |-> "NOTHING", hook |-> FALSE]

\* SubtitleOptimizationInterface.__init__.  file_queue: the deque of paths;
\* task: the file self.task was created from, 0 for None; data: the file
\* model._data was read from, 0 for the empty table; threads: the files of
\* the SubtitleOptimizationThreads started that have not reported with
\* finished or error (a thread that was asked to stop stays in the list
\* until it reports, if it ever does), in the order they were started;
\* start_shown, cancel_button: the start and the cancel button are shown; raised: an exception is propagating out of the handler.
\* Of the model only: enqueued, every path given to file_queue.extend, in
\* order; loads, every path _process_next_file took from the queue, in
\* order; fresh, the path _process_next_file took last if process has not
\* started a thread for it since, else 0; budget, the user commands still
\* allowed; op, the handler the last step ran.
NewInterface ==
    [file_queue |-> <<>>, task |-> 0, data |-> 0, threads |-> <<>>,
     start_button |-> TRUE, file_select_button |-> TRUE,
     start_shown |-> TRUE, cancel_button |-> FALSE, raised |-> FALSE,
     enqueued |-> <<>>, loads |-> <<>>, fresh |-> 0, budget |-> MaxIntake,
     op |-> "none"]

\* SubtitleTableModel.__init__ on the data given.  _data: the dict of the
\* document in iteration order, one record per item: its key (the number
\* n stands for the key str(n)) and the four fields of its value.  Of the
\* menu: the rows show_context_menu read from the selection while its
\* menu is open (menu.exec), <<>> when no menu is; raised: an exception
\* is propagating out of the handler.  Of the model only: op and args,
\* the operation the last step applied and its arguments; emitted, the
\* change signals it emitted, in order; budget, the operations still
\* allowed.
NewModel(data) ==
    [_data |-> data, menu |-> <<>>, raised |-> FALSE,
     op |-> "none", args |-> <<>>, emitted |-> <<>>, budget |-> MaxEdits]

\* The state after a handler of the batch interface: every variable takes
\* the field of S.
Becomes(S) ==
    /\ task_cards' = S.task_cards
    /\ removed_cards' = S.removed_cards
    /\ create_threads' = S.create_threads
    /\ processing' = S.processing
    /\ start_all_button' = S.start_all_button
    /\ cancel_button' = S.cancel_button
    /\ add_file_button' = S.add_file_button
    /\ clear_all_button' = S.clear_all_button
    /\ task_type_combo' = S.task_type_combo
    /\ host' = S.host
    /\ budget' = S.budget
    /\ batch_fin' = S.batch_fin
    /\ ev' = S.ev
    /\ sub' = sub
    /\ model' = model

Init ==
    /\ task_cards = <<>>
    /\ removed_cards = <<>>
    /\ create_threads = <<>>
    /\ processing = FALSE
    /\ start_all_button = TRUE
    /\ cancel_button = FALSE
    /\ add_file_button = TRUE
    /\ clear_all_button = TRUE
    /\ task_type_combo = TRUE
    /\ host = "running"
    /\ batch_fin = -1
    /\ ev = <<>>
    /\ budget = MaxWork
    /\ sub = NewInterface
    /\ model = NewModel(<<>>)

\* ------------------------------------------------------- TaskInfoCard
\* TaskInfoCard.start: a Completed task is refused with a warning; any
\* other task gets a new worker thread, whose reference replaces the one
\* the card held (a thread still running behind the old reference keeps
\* running, with its signals still connected to the card).  create_task
\* is only called with Task.Type.SUBTITLE or TRANSCRIBE (lines 318, 322,
\* 432, 435), the two thread branches; they differ in the thread class.
\* start_unguarded is start without its test of the status.
start_unguarded(S, i) ==
    LET c == S.task_cards[i] IN
    Log([S EXCEPT !.task_cards[i].orphans = IF c.running THEN @ + 1 ELSE @,
                  !.task_cards[i].running = TRUE,
                  !.budget = @ - 1],
        "thread_start", i)

start(S, i) ==
    LET c == S.task_cards[i] IN
    IF c.status = "COMPLETED"
    THEN Log(S, "warning", i)
    ELSE Log([S EXCEPT !.task_cards[i].orphans = IF c.running THEN @ + 1 ELSE @,
                       !.task_cards[i].running = TRUE,
                       !.budget = @ - 1],
             "thread_start", i)

\* TaskInfoCard.stop: terminate() the referenced thread if it is running.
\* The task's status is not touched.
stop(S, i) ==
    IF S.task_cards[i].running
    THEN Log([S EXCEPT !.task_cards[i].running = FALSE], "terminate", i)
    ELSE S

\* The loop `for task_card in self.task_cards: if status not in
\* [COMPLETED, FAILED]: ...; break`: index of the card it stops at, 0 if
\* it runs to the end.
RECURSIVE next_task_from(_, _)
next_task_from(cards, k) ==
    IF k > Len(cards) THEN 0
    ELSE IF cards[k].status \notin {"COMPLETED", "FAILED"} THEN k
    ELSE next_task_from(cards, k + 1)

\* The scan with the test against FAILED forgotten.
RECURSIVE next_not_completed_from(_, _)
next_not_completed_from(cards, k) ==
    IF k > Len(cards) THEN 0
    ELSE IF cards[k].status # "COMPLETED" THEN k
    ELSE next_not_completed_from(cards, k + 1)

next_task_forgets_failed(cards) == next_not_completed_from(cards, 1)

next_task(cards) == next_task_from(cards, 1)

\* ---------------------------------------------- BatchProcessInterface
\* on_batch_finished: line 263 reads the policy, line 264 matches it.
\* `case self.tr(TodoWhenDoneEnum.EXIT):` is a class pattern, and self.tr
\* is a bound method, not a class: the match statement raises TypeError
\* on its first case for every policy, so nothing after line 265 runs.
\* An exception that leaves a slot ends the process (qFatal) unless an
\* excepthook is installed (S.hook).  The call is logged with the policy
\* and with the statuses of the tasks at the moment of the call.
on_batch_finished(S) ==
    LET S1 == [S EXCEPT !.batch_fin = IF @ >= 0 THEN @ + 1 ELSE @,
                        !.ev = Append(@, Event("on_batch_finished", 0,
                                  [todo |-> S.todo,
                                   statuses |-> [i \in 1..Len(S.task_cards) |->
                                                   S.task_cards[i].status]]))]
    IN  [Log(S1, "TypeError", 0) EXCEPT !.host = IF S.hook THEN "running" ELSE "aborted"]

\* The scheduler starts card n: the statuses it was chosen from, and the
\* cards the batch still owed a start, are recorded.
select(S, n) ==
    [S EXCEPT !.task_cards[n].owed = FALSE,
              !.ev = Append(@, Event("select", n,
                        [i \in 1..Len(S.task_cards) |->
                           [status |-> S.task_cards[i].status,
                            owed |-> S.task_cards[i].owed]]))]

\* on_task_finished with a scan that stops at Pending tasks only.
RECURSIVE next_pending_from(_, _)
next_pending_from(cards, k) ==
    IF k > Len(cards) THEN 0
    ELSE IF cards[k].status = "PENDING" THEN k
    ELSE next_pending_from(cards, k + 1)

on_task_finished_pending_only(S) ==
    LET n == next_pending_from(S.task_cards, 1) IN
    IF n # 0
    THEN start([select(S, n) EXCEPT !.task_cards[n].nfin = @ + 1], n)
    ELSE on_batch_finished(S)

on_task_finished(S) ==
    LET n == next_task(S.task_cards) IN
    IF n # 0
    THEN start([select(S, n) EXCEPT !.task_cards[n].nfin = @ + 1], n)
    ELSE on_batch_finished(S)

on_task_error(S) ==
    LET n == next_task(S.task_cards) IN
    IF n # 0
    THEN start([select(S, n) EXCEPT !.task_cards[n].nfin = @ + 1], n)
    ELSE on_batch_finished(S)

\* card.finished.emit / card.error.emit: every connection that exists when
\* the signal is emitted is called once, in turn (connections made by a
\* slot during the emission are not called by it); no slot runs once the
\* process has been ended.
RECURSIVE emit_finished(_, _)
emit_finished(S, n) ==
    IF n = 0 \/ S.host # "running" THEN S
    ELSE emit_finished(on_task_finished(S), n - 1)

RECURSIVE emit_error(_, _)
emit_error(S, n) ==
    IF n = 0 \/ S.host # "running" THEN S
    ELSE emit_error(on_task_error(S), n - 1)

\* TaskInfoCard.cancel
cancel(S, i) ==
    LET S1 == stop(S, i)
        S2 == [S1 EXCEPT !.task_cards[i].status = "PENDING"]
    IN  emit_finished(S2, S2.task_cards[i].nfin)

\* on_finished with the signal emitted before the status is written.
on_finished_emits_first(S, i) ==
    LET S1 == emit_finished(S, S.task_cards[i].nfin)
    IN  [S1 EXCEPT !.task_cards[i].status = "COMPLETED"]

\* TaskInfoCard.on_finished
on_finished(S, i) ==
    LET S1 == [S EXCEPT !.task_cards[i].status = "COMPLETED"]
    IN  emit_finished(S1, S1.task_cards[i].nfin)

\* TaskInfoCard.on_error
on_error(S, i) ==
    LET S1 == [S EXCEPT !.task_cards[i].status = "FAILED"]
    IN  emit_error(S1, S1.task_cards[i].nerr)

\* start_batch_process without the closing test that every task is done.
start_batch_process_no_final_test(S) ==
    LET S0 == [S EXCEPT !.processing = TRUE,
                        !.start_all_button = FALSE,
                        !.cancel_button = TRUE,
                        !.add_file_button = FALSE,
                        !.clear_all_button = FALSE]
    IN  IF Len(S0.task_cards) = 0
        THEN Log(S0, "warning", 0)
        ELSE LET cs == S0.task_cards
                 S1 == [S0 EXCEPT !.batch_fin = 0, !.task_cards =
                          [i \in 1..Len(cs) |->
                             [cs[i] EXCEPT !.owed = (cs[i].status \notin Terminal)]]]
                 n  == next_task(S1.task_cards)
             IN  IF n # 0
                 THEN start([select(S1, n) EXCEPT !.task_cards[n].nfin = @ + 1,
                                                  !.task_cards[n].nerr = @ + 1],
                            n)
                 ELSE S1

start_batch_process(S) ==
    LET S0 == [S EXCEPT !.processing = TRUE,
                        !.start_all_button = FALSE,
                        !.cancel_button = TRUE,
                        !.add_file_button = FALSE,
                        !.clear_all_button = FALSE]
    IN  IF Len(S0.task_cards) = 0
        THEN Log(S0, "warning", 0)
        ELSE LET cs == S0.task_cards
                 S1 == [S0 EXCEPT !.batch_fin = 0, !.task_cards =
                          [i \in 1..Len(cs) |->
                             [cs[i] EXCEPT !.owed = (cs[i].status \notin Terminal)]]]
                 n  == next_task(S1.task_cards)
                 S2 == IF n # 0
                       THEN start([select(S1, n) EXCEPT !.task_cards[n].nfin = @ + 1,
                                                        !.task_cards[n].nerr = @ + 1],
                                  n)
                       ELSE S1
             IN  IF \A i \in 1..Len(S2.task_cards) :
                        S2.task_cards[i].status \in {"COMPLETED", "FAILED"}
                 THEN on_batch_finished(S2)
                 ELSE S2

\* The loop of cancel_batch_process over the cards from k on.
RECURSIVE stop_all_from(_, _)
stop_all_from(S, k) ==
    IF k > Len(S.task_cards) THEN S
    ELSE stop_all_from(
            IF S.task_cards[k].status \in {"TRANSCRIBING", "PENDING", "OPTIMIZING", "GENERATING"}
            THEN stop(S, k) ELSE S,
            k + 1)

\* cancel_batch_process without line 194, the reset of self.processing.
cancel_batch_process_keeps_processing(S) ==
    LET S0 == [S EXCEPT !.start_all_button = TRUE,
                        !.cancel_button = FALSE,
                        !.add_file_button = TRUE,
                        !.clear_all_button = TRUE,
                        !.batch_fin = -1,
                        !.task_cards = [i \in 1..Len(S.task_cards) |->
                                          [S.task_cards[i] EXCEPT !.owed = FALSE]]]
    IN  stop_all_from(S0, 1)

cancel_batch_process(S) ==
    LET S0 == [S EXCEPT !.processing = FALSE,
                        !.start_all_button = TRUE,
                        !.cancel_button = FALSE,
                        !.add_file_button = TRUE,
                        !.clear_all_button = TRUE,
                        !.batch_fin = -1,
                        !.task_cards = [i \in 1..Len(S.task_cards) |->
                                          [S.task_cards[i] EXCEPT !.owed = FALSE]]]
    IN  stop_all_from(S0, 1)

RemoveAt(s, i) == [j \in 1..(Len(s) - 1) |-> IF j < i THEN s[j] ELSE s[j + 1]]

\* What is left of a card after remove_task_card: task_card.deleteLater()
\* (line 398) stops no worker and removes no connection, and deletes the
\* card only when control is back in the event loop.  The reports of its
\* workers that were queued before are delivered to it first, and they
\* emit card.finished / card.error to the connections the scheduler made;
\* the reports of workers that end later are not delivered, the
\* connections of a thread to a deleted card being gone.  live: the
\* threads of the card that are still running.
Removed(c) == [live |-> (IF c.running THEN 1 ELSE 0) + c.orphans,
               qfin |-> c.qfin, qerr |-> c.qerr, nfin |-> c.nfin, nerr |-> c.nerr]

\* Nothing of a removed card is left: no worker and no queued report.
Gone(r) == r.live + r.qfin + r.qerr = 0

\* The list of removed cards after remove_task_card has removed card c.
AfterRemoval(cards, c) ==
    IF Gone(Removed(c)) THEN cards ELSE Append(cards, Removed(c))

\* The deferred delete of removed card k, once no report is queued for
\* it; its record is kept while a thread it started is still running.
deleted(S, k) ==
    IF Gone(S.removed_cards[k])
    THEN [S EXCEPT !.removed_cards = RemoveAt(@, k)]
    ELSE S

\* TaskInfoCard.on_finished and on_error of removed card k: the status is
\* written to a task that is no longer in the list, and the signal goes
\* to the connections of the card.
on_finished_removed(S, k) ==
    deleted(emit_finished(S, S.removed_cards[k].nfin), k)

on_error_removed(S, k) ==
    deleted(emit_error(S, S.removed_cards[k].nerr), k)

\* remove_task_card without its test of self.processing.
remove_task_card_unguarded(S, i) ==
    LET S1 == [S EXCEPT !.task_cards = RemoveAt(@, i),
                        !.removed_cards = AfterRemoval(@, S.task_cards[i])]
    IN  IF Len(S1.task_cards) = 0
        THEN [S1 EXCEPT !.task_type_combo = TRUE]
        ELSE S1

\* remove_task_card, for the card at index i of the list
remove_task_card(S, i) ==
    IF S.processing
    THEN Log(S, "warning", i)
    ELSE LET S1 == [S EXCEPT !.task_cards = RemoveAt(@, i),
                             !.removed_cards = AfterRemoval(@, S.task_cards[i])]
         IN  IF Len(S1.task_cards) = 0
             THEN [S1 EXCEPT !.task_type_combo = TRUE]
             ELSE S1

\* The loop of clear_all_tasks over a copy of the list: each card of the
\* copy is removed from where it now stands, the head of the list.
RECURSIVE remove_all(_, _)
remove_all(S, n) ==
    IF n = 0 THEN S ELSE remove_all(remove_task_card(S, 1), n - 1)

clear_all_tasks(S) ==
    IF S.processing
    THEN Log(S, "warning", 0)
    ELSE remove_all(S, Len(S.task_cards))

\* create_task: refused when a task of the list has the same resolved
\* path; otherwise a creation thread is started.
create_task(S, path, type) ==
    IF \E i \in 1..Len(S.task_cards) : S.task_cards[i].path = path
    THEN Log(S, "warning", 0)
    ELSE [S EXCEPT !.create_threads = Append(@, [path |-> path, type |-> type,
                                                 added |-> FALSE]),
                   !.budget = @ - 1]

\* The loop of on_add_file over the files from k on.
RECURSIVE create_tasks(_, _, _)
create_tasks(S, files, k) ==
    IF k > Len(files) THEN S
    ELSE create_tasks(create_task(S, files[k].path, files[k].type), files, k + 1)

\* on_add_file, files being what the file dialog returned (empty when the
\* dialog was dismissed): after the loop, line 329 reads files[0], which
\* raises IndexError on the empty list.  An exception that leaves a slot
\* ends the process unless an excepthook is installed (S.hook).
on_add_file(S, files) ==
    LET S1 == create_tasks(S, files, 1) IN
    IF files = <<>>
    THEN [Log(S1, "IndexError", 0) EXCEPT !.host = IF S.hook THEN "running" ELSE "aborted"]
    ELSE S1

\* add_task_card, the first slot of the finished signal of creation
\* thread k, with the task the thread made.
add_task_card(S, k) ==
    LET t == S.create_threads[k] IN
    [S EXCEPT !.task_cards = Append(@, NewCard(t.path, t.type)),
              !.create_threads[k].added = TRUE,
              !.task_type_combo = FALSE]

\* cleanup_thread, the second slot of the finished signal of creation
\* thread k: the thread, which is in the list, is removed from it.
cleanup_thread(S, k) ==
    [S EXCEPT !.create_threads = RemoveAt(@, k)]

\* --------------------------------------------------------- the workers
\* The stages a worker thread writes into task.status while it runs.
Stages(type) ==
    IF type = "TRANSCRIBE" THEN <<"TRANSCRIBING">>
    ELSE <<"TRANSCRIBING", "OPTIMIZING", "GENERATING">>

StageNo(type, st) ==
    IF \E k \in 1..Len(Stages(type)) : Stages(type)[k] = st
    THEN CHOOSE k \in 1..Len(Stages(type)) : Stages(type)[k] = st
    ELSE 0

Live(c) == (IF c.running THEN 1 ELSE 0) + c.orphans

\* ------------------------------------------------------------- actions
Begin(op, card) == [State EXCEPT !.ev = <<Event(op, card, <<>>)>>]

\* The record a user command starts from.
Command(op, card) == [Begin(op, card) EXCEPT !.budget = @ - 1]

Alive == host = "running"

\* The step to S stays within the budget.
Within(S) == S.budget >= 0

\* on_batch_finished ran during the handler that led to S.
Dispatched(S) == \E k \in 1..Len(S.ev) : S.ev[k].op = "on_batch_finished"

\* A step of handler H from B.  The policy selected in the combo box and
\* the presence of an excepthook are inputs of the step; they are only
\* enumerated when the handler reaches on_batch_finished, the one place
\* that reads them.
Step(H(_), B) ==
    IF Dispatched(H(B))
    THEN \E todo \in TodoWhenDone, hook \in BOOLEAN :
            LET S == H([B EXCEPT !.todo = todo, !.hook = hook])
            IN  Within(S) /\ Becomes(S)
    ELSE Within(H(B)) /\ Becomes(H(B))

\* One supported file is dropped on the list: dropEvent calls create_task.
CreateTask ==
    /\ Alive
    /\ \E f \in Files :
         Step(LAMBDA S : create_task(S, f.path, f.type), Begin("create_task", f.path))

\* The add-file button: the dialog is dismissed, or one of the files is
\* chosen.  The excepthook is an input of the step; it is only enumerated
\* when the slot raises.  A creation thread started is work (see
\* create_task), and so is the click that starts none.
OnAddFile ==
    /\ Alive
    /\ \/ \E hook \in BOOLEAN :
            LET S == on_add_file([Command("on_add_file", 0) EXCEPT !.hook = hook], <<>>)
            IN  Within(S) /\ Becomes(S)
       \/ \E f \in Files :
            LET S == on_add_file(Begin("on_add_file", 0), <<f>>)
            IN  Within(S) /\ Becomes(S)

\* The GUI thread runs the first slot of the finished signal of creation
\* thread k.
AddTaskCard ==
    /\ Alive
    /\ \E k \in 1..Len(create_threads) :
         /\ ~create_threads[k].added
         /\ Becomes(add_task_card(Begin("add_task_card", k), k))

\* The GUI thread runs the second slot of the finished signal of creation
\* thread k.
CleanupThread ==
    /\ Alive
    /\ \E k \in 1..Len(create_threads) :
         /\ create_threads[k].added
         /\ Becomes(cleanup_thread(Begin("cleanup_thread", k), k))

RemoveTaskCard ==
    /\ Alive
    /\ \E i \in 1..Len(task_cards) :
         Step(LAMBDA S : remove_task_card(S, i), Command("remove_task_card", i))

ClearAllTasks ==
    /\ Alive
    /\ Step(clear_all_tasks, Command("clear_all_tasks", 0))

StartBatchProcess ==
    /\ Alive
    /\ Step(start_batch_process, Command("start_batch_process", 0))

\* The cancel button; closeEvent makes the same call.
CancelBatchProcess ==
    /\ Alive
    /\ Step(cancel_batch_process, Command("cancel_batch_process", 0))

\* "Reprocess" in the context menu of card i
CardStart ==
    /\ Alive
    /\ \E i \in 1..Len(task_cards) :
         Step(LAMBDA S : start(S, i), Command("start", i))

\* "Cancel task" in the context menu of card i
CardCancel ==
    /\ Alive
    /\ \E i \in 1..Len(task_cards) :
         Step(LAMBDA S : cancel(S, i), Command("cancel", i))

\* A running worker of card i moves its task to a stage of the pipeline.
WorkerProgress ==
    /\ Alive
    /\ \E i \in 1..Len(task_cards) :
         LET c == task_cards[i] IN
         /\ Live(c) > 0
         /\ \E k \in 1..Len(Stages(c.type)) :
              /\ Stages(c.type)[k] # c.status
              /\ (Live(c) = 1 /\ c.status \in Running) => k > StageNo(c.type, c.status)
              /\ Becomes([Begin("progress", i) EXCEPT
                            !.task_cards[i].status = Stages(c.type)[k]])

\* A running worker of card i ends its run with its finished or its error
\* signal, which is queued for the GUI thread.
WorkerReport ==
    /\ Alive
    /\ \E i \in 1..Len(task_cards), ok \in BOOLEAN, current \in BOOLEAN :
         LET c == task_cards[i]
             S == IF current
                  THEN [Begin("report", i) EXCEPT !.task_cards[i].running = FALSE]
                  ELSE [Begin("report", i) EXCEPT !.task_cards[i].orphans = @ - 1]
         IN  /\ IF current THEN c.running ELSE c.orphans > 0
             /\ Becomes(IF ok THEN [S EXCEPT !.task_cards[i].qfin = @ + 1]
                              ELSE [S EXCEPT !.task_cards[i].qerr = @ + 1])

\* A running worker of removed card k ends its run.  Its signal is not
\* delivered: the card is deleted before a call queued now could run.
WorkerReportRemoved ==
    /\ Alive
    /\ \E k \in 1..Len(removed_cards) :
         /\ removed_cards[k].live > 0
         /\ Becomes(deleted([Begin("report", 0) EXCEPT !.removed_cards[k].live = @ - 1], k))

\* The GUI thread delivers a queued finished signal of a worker to its card.
DeliverFinished ==
    /\ Alive
    /\ \E i \in 1..Len(task_cards) :
         /\ task_cards[i].qfin > 0
         /\ Step(LAMBDA S : on_finished(S, i),
                 [Begin("on_finished", i) EXCEPT !.task_cards[i].qfin = @ - 1])

\* The GUI thread delivers a queued error signal of a worker to its card.
DeliverError ==
    /\ Alive
    /\ \E i \in 1..Len(task_cards) :
         /\ task_cards[i].qerr > 0
         /\ Step(LAMBDA S : on_error(S, i),
                 [Begin("on_error", i) EXCEPT !.task_cards[i].qerr = @ - 1])

\* The GUI thread delivers a finished signal, queued before the removal,
\* to a card that was removed from the list.
DeliverFinishedRemoved ==
    /\ Alive
    /\ \E k \in 1..Len(removed_cards) :
         /\ removed_cards[k].qfin > 0
         /\ Step(LAMBDA S : on_finished_removed(S, k),
                 [Begin("on_finished", 0) EXCEPT !.removed_cards[k].qfin = @ - 1])

\* The same for a queued error signal.
DeliverErrorRemoved ==
    /\ Alive
    /\ \E k \in 1..Len(removed_cards) :
         /\ removed_cards[k].qerr > 0
         /\ Step(LAMBDA S : on_error_removed(S, k),
                 [Begin("on_error", 0) EXCEPT !.removed_cards[k].qerr = @ - 1])

Next ==
    \/ CreateTask
    \/ OnAddFile
    \/ AddTaskCard
    \/ CleanupThread
    \/ RemoveTaskCard
    \/ ClearAllTasks
    \/ StartBatchProcess
    \/ CancelBatchProcess
    \/ CardStart
    \/ CardCancel
    \/ WorkerProgress
    \/ WorkerReport
    \/ WorkerReportRemoved
    \/ DeliverFinished
    \/ DeliverError
    \/ DeliverFinishedRemoved
    \/ DeliverErrorRemoved

Spec == Init /\ [][Next]_vars

\* Three files have been added, of both task types, and nothing has been
\* started yet.
InitDeep ==
    /\ task_cards = <<NewCard(1, "TRANSCRIBE"), NewCard(2, "SUBTITLE"), NewCard(3, "SUBTITLE")>>
    /\ removed_cards = <<>>
    /\ create_threads = <<>>
    /\ processing = FALSE
    /\ start_all_button = TRUE
    /\ cancel_button = FALSE
    /\ add_file_button = TRUE
    /\ clear_all_button = TRUE
    /\ task_type_combo = FALSE
    /\ host = "running"
    /\ batch_fin = -1
    /\ ev = <<>>
    /\ budget = DeepWork
    /\ sub = NewInterface
    /\ model = NewModel(<<>>)

SpecDeep == InitDeep /\ [][Next]_vars

\* ------------------------------------- SubtitleOptimizationInterface
\* load_subtitle_file: create_task replaces self.task; from_subtitle_file
\* reads the file into model._data, or raises.
load_subtitle_file(W, file_path) ==
    LET W1 == [W EXCEPT !.task = file_path] IN
    IF file_path \in Unreadable
    THEN [W1 EXCEPT !.raised = TRUE]
    ELSE [W1 EXCEPT !.data = file_path]

\* _process_next_file without its test of the queue: popleft raises
\* IndexError on an empty deque.
_process_next_file_unchecked(W) ==
    IF W.file_queue = <<>> THEN [W EXCEPT !.raised = TRUE]
    ELSE LET file_path == Head(W.file_queue)
         IN  load_subtitle_file(
                [W EXCEPT !.file_queue = Tail(@),
                          !.loads = Append(@, file_path),
                          !.fresh = file_path],
                file_path)

\* _process_next_file taking the path from the wrong end of the deque
\* (pop for popleft).
_process_next_file_pops_tail(W) ==
    IF W.file_queue = <<>> THEN W
    ELSE LET file_path == W.file_queue[Len(W.file_queue)]
         IN  load_subtitle_file(
                [W EXCEPT !.file_queue = SubSeq(@, 1, Len(@) - 1),
                          !.loads = Append(@, file_path),
                          !.fresh = file_path],
                file_path)

_process_next_file(W) ==
    IF W.file_queue = <<>> THEN W
    ELSE LET file_path == Head(W.file_queue)
         IN  load_subtitle_file(
                [W EXCEPT !.file_queue = Tail(@),
                          !.loads = Append(@, file_path),
                          !.fresh = file_path],
                file_path)

\* on_batch_file_select, file_paths being what the file dialog returned
\* (empty when the dialog was dismissed).
on_batch_file_select(W, file_paths) ==
    IF file_paths # <<>>
    THEN _process_next_file([W EXCEPT !.file_queue = @ \o file_paths,
                                      !.enqueued = @ \o file_paths])
    ELSE W

\* on_file_select, and dropEvent with one supported file: the file is
\* loaded at once, not through the queue (0: the dialog was dismissed).
on_file_select(W, file_path) ==
    IF file_path # 0 THEN load_subtitle_file(W, file_path) ELSE W

\* process: without a task, a warning; otherwise a new optimization thread
\* for self.task, whose reference replaces the one held.
process(W) ==
    IF W.task = 0 THEN W
    ELSE [W EXCEPT !.start_button = FALSE,
                   !.file_select_button = FALSE,
                   !.cancel_button = TRUE,
                   !.threads = Append(@, W.task),
                   !.fresh = IF @ = W.task THEN 0 ELSE @]

on_subtitle_optimization_finished(W) ==
    LET W1 == [W EXCEPT !.start_button = TRUE, !.file_select_button = TRUE,
                        !.cancel_button = FALSE] IN
    IF W1.file_queue # <<>>
    THEN LET W2 == _process_next_file(W1)
         IN  IF W2.raised THEN W2 ELSE process(W2)
    ELSE W1

on_subtitle_optimization_error(W) ==
    [W EXCEPT !.start_button = TRUE, !.file_select_button = TRUE,
              !.cancel_button = FALSE]

\* set_task with the task of file file_path: the thread referenced, if
\* there is one, is asked to stop (it stays in threads, see NewInterface);
\* both buttons are enabled and self.task replaced; update_info then
\* reads the file into model._data, or raises.
set_task(W, file_path) ==
    LET W1 == [W EXCEPT !.start_button = TRUE, !.file_select_button = TRUE,
                        !.task = file_path] IN
    IF file_path \in Unreadable
    THEN [W1 EXCEPT !.raised = TRUE]
    ELSE [W1 EXCEPT !.data = file_path]

\* cancel_optimization, the slot of the cancel button, which is shown
\* from process on (the thread attribute exists): the thread is asked to
\* stop, both buttons are enabled, the cancel button is hidden.
cancel_optimization(W) ==
    [W EXCEPT !.start_button = TRUE, !.file_select_button = TRUE,
              !.cancel_button = FALSE]

\* remove_widget: the start button and the widgets of the bottom layout,
\* the cancel button among them, are hidden.  Nothing shows the start
\* button again; process shows the cancel button when it starts a thread.
remove_widget(W) ==
    [W EXCEPT !.start_shown = FALSE, !.cancel_button = FALSE]

\* SubtitleOptimizationInterface.update_all, the slot of the update_all
\* signal of every optimization thread: the document the thread made of
\* its file file_path replaces model._data, whatever was loaded.
interface_update_all(W, file_path) ==
    [W EXCEPT !.data = file_path]

\* The selections of a file dialog: sequences of distinct files.
Selections ==
    {q \in UNION {[1..n -> SubtitleFiles] : n \in 0..MaxSelect} :
        \A i, j \in 1..Len(q) : i # j => q[i] # q[j]}

\* The variables of the batch interface other than host.
batchVars == <<task_cards, removed_cards, create_threads, processing, start_all_button, cancel_button,
               add_file_button, clear_all_button, task_type_combo,
               budget, batch_fin, ev>>

\* The state after a handler of the subtitle interface that led to W.  An
\* exception that leaves the handler ends the process unless an excepthook
\* is installed.
Leaves(W) ==
    /\ W.budget >= 0
    /\ sub' = [W EXCEPT !.raised = FALSE]
    /\ IF W.raised
       THEN \E hook \in BOOLEAN : host' = IF hook THEN "running" ELSE "aborted"
       ELSE host' = host
    /\ UNCHANGED batchVars
    /\ UNCHANGED model

\* The record a user command on the subtitle interface starts from.
Asked(op) == [sub EXCEPT !.budget = @ - 1, !.op = op]

\* The record the slot of a signal of optimization thread k starts from.
Reported(op, k) == [sub EXCEPT !.threads = RemoveAt(@, k), !.op = op]

\* The batch button; it is never disabled.
BatchFileSelect ==
    /\ Alive
    /\ \E file_paths \in Selections : Leaves(on_batch_file_select(Asked("on_batch_file_select"), file_paths))

\* The file button, or a file dropped on the interface.
FileSelect ==
    /\ Alive
    /\ \E file_path \in SubtitleFiles \cup {0} : Leaves(on_file_select(Asked("on_file_select"), file_path))

\* The start button, while it is shown and enabled.
Process ==
    /\ Alive
    /\ sub.start_shown
    /\ sub.start_button
    /\ Leaves(process(Asked("process")))

\* The optimization thread k ends its run with its finished signal.
OptFinished ==
    /\ Alive
    /\ \E k \in 1..Len(sub.threads) :
         Leaves(on_subtitle_optimization_finished(Reported("on_subtitle_optimization_finished", k)))

\* The optimization thread k ends its run with its error signal.
OptError ==
    /\ Alive
    /\ \E k \in 1..Len(sub.threads) :
         Leaves(on_subtitle_optimization_error(Reported("on_subtitle_optimization_error", k)))

\* The optimization thread k, still running, emits update_all with the
\* document it has made of its file (a file it could read).
OptUpdateAll ==
    /\ Alive
    /\ \E k \in 1..Len(sub.threads) :
         /\ sub.threads[k] \notin Unreadable
         /\ Leaves(interface_update_all([sub EXCEPT !.op = "update_all"], sub.threads[k]))

\* set_task is called with the task of a subtitle file.
SetTask ==
    /\ Alive
    /\ \E file_path \in SubtitleFiles : Leaves(set_task(Asked("set_task"), file_path))

\* The cancel button, while it is shown.
CancelOptimization ==
    /\ Alive
    /\ sub.cancel_button
    /\ Leaves(cancel_optimization(Asked("cancel_optimization")))

\* remove_widget is called (the preview window of a card calls it on the
\* interface it has made).
RemoveWidget ==
    /\ Alive
    /\ Leaves(remove_widget(Asked("remove_widget")))

NextIntake ==
    \/ BatchFileSelect
    \/ FileSelect
    \/ Process
    \/ OptFinished
    \/ OptError
    \/ OptUpdateAll
    \/ SetTask
    \/ CancelOptimization
    \/ RemoveWidget

SpecIntake == Init /\ [][NextIntake]_vars

\* _process_next_file called on its own, in whatever state the interface
\* is in.
ProcessNextFile ==
    /\ Alive
    /\ Leaves(_process_next_file(Asked("_process_next_file")))

NextDequeue ==
    \/ NextIntake
    \/ ProcessNextFile

SpecDequeue == Init /\ [][NextDequeue]_vars

\* --------------------------------------------------- SubtitleTableModel
\* The original and translated texts of the cues of a subtitle file.
Originals  == <<"a", "b", "c", "d", "e">>
Translated == <<"A", "B", "C", "D", "E">>

\* f"{n}": the decimal digits of n (the keys of a document are strings).
Digits == <<"0", "1", "2", "3", "4", "5", "6", "7", "8", "9">>

RECURSIVE format(_)
format(n) ==
    IF n < 10 THEN Digits[n + 1]
    ELSE format(n \div 10) \o Digits[(n % 10) + 1]

\* What load_subtitle_file puts into model._data for a file of n cues
\* (from_subtitle_file(...).to_json()): keys "1".."n", cue k from (k-1) s to k s.
Loaded(n) ==
    [k \in 1..n |->
        [key |-> format(k), start_time |-> (k - 1) * 1000, end_time |-> k * 1000,
         original_subtitle |-> Originals[k], translated_subtitle |-> Translated[k]]]

\* The strings typed into a cell: str is the string, hmsz the numbers at
\* the places of hh, mm, ss and zzz when the string has the shape
\* dd:dd:dd.ddd, and <<>> when it has not.
EditValues ==
    {[str |-> "00:00:00.000", hmsz |-> <<0, 0, 0, 0>>],
     [str |-> "00:00:00.500", hmsz |-> <<0, 0, 0, 500>>],
     [str |-> "00:00:61.000", hmsz |-> <<0, 0, 61, 0>>],
     [str |-> "x",            hmsz |-> <<>>]}

\* QTime.fromString(value, 'hh:mm:ss.zzz'): the time, or an invalid QTime
\* when the string does not have the format or a field is out of range.
fromString(value) ==
    IF /\ value.hmsz # <<>>
       /\ value.hmsz[1] \in 0..23
       /\ value.hmsz[2] \in 0..59
       /\ value.hmsz[3] \in 0..59
       /\ value.hmsz[4] \in 0..999
    THEN [valid |-> TRUE,
          ms |-> ((value.hmsz[1] * 60 + value.hmsz[2]) * 60 + value.hmsz[3]) * 1000
                 + value.hmsz[4]]
    ELSE [valid |-> FALSE, ms |-> 0]

\* QTime(0, 0, 0).msecsTo(time): 0 when time is invalid.
msecsTo(time) == IF time.valid THEN time.ms ELSE 0

\* ' '.join(texts)
RECURSIVE join(_, _)
join(sep, texts) ==
    IF texts = <<>> THEN ""
    ELSE IF Len(texts) = 1 THEN texts[1]
    ELSE texts[1] \o sep \o join(sep, Tail(texts))

\* signal.emit(...): the change signal is emitted.
Emit(M, signal) == [M EXCEPT !.emitted = Append(@, signal)]

\* setData writing the end time also when the start time is edited.
setData_writes_both_times(M, row, col, value, role) ==
    IF role = "EditRole"
    THEN LET r == row + 1
             M1 == IF col = 0
                   THEN [M EXCEPT !._data[r].start_time = msecsTo(fromString(value)),
                                  !._data[r].end_time = msecsTo(fromString(value))]
                   ELSE IF col = 1
                   THEN [M EXCEPT !._data[r].end_time = msecsTo(fromString(value))]
                   ELSE IF col = 2
                   THEN [M EXCEPT !._data[r].original_subtitle = value.str]
                   ELSE IF col = 3
                   THEN [M EXCEPT !._data[r].translated_subtitle = value.str]
                   ELSE M
         IN  Emit(M1, "dataChanged")
    ELSE M

\* SubtitleTableModel.setData(index, value, role), index at (row, col),
\* rows and columns counted from 0.
setData(M, row, col, value, role) ==
    IF role = "EditRole"
    THEN LET r == row + 1
             M1 == IF col = 0
                   THEN [M EXCEPT !._data[r].start_time = msecsTo(fromString(value))]
                   ELSE IF col = 1
                   THEN [M EXCEPT !._data[r].end_time = msecsTo(fromString(value))]
                   ELSE IF col = 2
                   THEN [M EXCEPT !._data[r].original_subtitle = value.str]
                   ELSE IF col = 3
                   THEN [M EXCEPT !._data[r].translated_subtitle = value.str]
                   ELSE M
         IN  Emit(M1, "dataChanged")
    ELSE M

\* SubtitleTableModel.update_all
update_all(M, data) ==
    Emit([M EXCEPT !._data = data], "layoutChanged")

\* new_data[str(n)] = item, with the key of another numbering kept.
Keyed_keeps_key(n, item) == item

\* new_data[str(n)] = item: the item under the key str(n).
Keyed(n, item) == [item EXCEPT !.key = format(n)]

\* The loop of merge_selected_rows over preserved_keys, from index i
\* (counted from 0) on: new_data gets the merged item when i is rows[0],
\* then the preserved item, each under the key str(len(new_data) + 1).
RECURSIVE rebuild(_, _, _, _, _)
rebuild(preserved, i, new_data, first, item) ==
    IF i >= Len(preserved) THEN new_data
    ELSE LET d1 == IF i = first
                   THEN Append(new_data, Keyed(Len(new_data) + 1, item))
                   ELSE new_data
             d2 == Append(d1, Keyed(Len(d1) + 1, preserved[i + 1]))
         IN  rebuild(preserved, i + 1, d2, first, item)

\* merged_item with the end time taken from the first selected row.
merged_item_end_of_first(data_list, rows) ==
    LET first_row == data_list[rows[1] + 1]
    IN  [key |-> "",
         start_time |-> first_row.start_time,
         end_time |-> first_row.end_time,
         original_subtitle |->
            join(" ", [k \in 1..Len(rows) |-> data_list[rows[k] + 1].original_subtitle]),
         translated_subtitle |->
            join(" ", [k \in 1..Len(rows) |-> data_list[rows[k] + 1].translated_subtitle])]

\* merged_item of merge_selected_rows (lines 817-840); it has no key yet.
merged_item(data_list, rows) ==
    LET first_row == data_list[rows[1] + 1]
        last_row  == data_list[rows[Len(rows)] + 1]
    IN  [key |-> "",
         start_time |-> first_row.start_time,
         end_time |-> last_row.end_time,
         original_subtitle |->
            join(" ", [k \in 1..Len(rows) |-> data_list[rows[k] + 1].original_subtitle]),
         translated_subtitle |->
            join(" ", [k \in 1..Len(rows) |-> data_list[rows[k] + 1].translated_subtitle])]

\* merge_selected_rows from line 813 on.  data_list[rows[0]] (line 818)
\* or data_list[rows[-1]] (line 819) raises IndexError when the document
\* has no such row; rows is ascending, so both are there when the last is.
merge_rows(M, rows) ==
    IF rows[Len(rows)] >= Len(M._data) THEN [M EXCEPT !.raised = TRUE] ELSE
    LET data_list == M._data
        item == merged_item(data_list, rows)
        preserved == SubSeq(data_list, 1, rows[1])
                     \o SubSeq(data_list, rows[Len(rows)] + 2, Len(data_list))
        d1 == rebuild(preserved, 0, <<>>, rows[1], item)
        new_data == IF rows[1] >= Len(preserved)
                    THEN Append(d1, Keyed(Len(d1) + 1, item))
                    ELSE d1
    IN  update_all(M, new_data)

\* merge_selected_rows with `len(rows) < 1` for `len(rows) < 2`.
merge_selected_rows_of_one(M, rows) ==
    IF Len(rows) < 1 THEN M ELSE merge_rows(M, rows)

\* SubtitleOptimizationInterface.merge_selected_rows(rows), rows counted
\* from 0.
merge_selected_rows(M, rows) ==
    IF Len(rows) < 2 THEN M ELSE merge_rows(M, rows)

\* sorted(set(index.row() for index in indexes)) of a set of rows.
RECURSIVE sorted(_)
sorted(rs) ==
    IF rs = {} THEN <<>>
    ELSE LET lo == CHOOSE r \in rs : \A q \in rs : r <= q
         IN  <<lo>> \o sorted(rs \ {lo})

\* The keys and the values of the items of a partial update.  A value is
\* a string, given by its lines: the string is the lines joined by "\n".
\* "9" is the key of no entry of a document.
UpdateKeys   == {"1", "2", "9"}
UpdateValues == {<<"T">>, <<"o", "t">>, <<"o", "t", "u">>}

\* The dicts an optimization thread delivers with its update signal, in
\* iteration order: up to MaxUpdate items, their keys distinct.
Updates ==
    {u \in UNION {[1..n -> [key : UpdateKeys, value : UpdateValues]] : n \in 0..MaxUpdate} :
        \A i, j \in 1..Len(u) : i # j => u[i].key # u[j].key}

\* value.split("\n", 1): the first line, and the rest of the string.
split(value) == <<value[1], join("\n", Tail(value))>>

\* The body of the loop of update_data with a key that is not in the
\* document added to it.
update_item_adds_missing(data, key, value) ==
    IF \E j \in 1..Len(data) : data[j].key = key
    THEN LET j == CHOOSE j \in 1..Len(data) : data[j].key = key
         IN  IF Len(value) > 1
             THEN [data EXCEPT ![j].original_subtitle = split(value)[1],
                               ![j].translated_subtitle = split(value)[2]]
             ELSE [data EXCEPT ![j].translated_subtitle = value[1]]
    ELSE Append(data, [key |-> key, start_time |-> 0, end_time |-> 0,
                       original_subtitle |-> "",
                       translated_subtitle |-> join("\n", value)])

\* The body of the loop of update_data (lines 60-66) for one item.
update_item(data, key, value) ==
    IF \E j \in 1..Len(data) : data[j].key = key
    THEN LET j == CHOOSE j \in 1..Len(data) : data[j].key = key
         IN  IF Len(value) > 1
             THEN [data EXCEPT ![j].original_subtitle = split(value)[1],
                               ![j].translated_subtitle = split(value)[2]]
             ELSE [data EXCEPT ![j].translated_subtitle = value[1]]
    ELSE data

\* The loop of update_data over the items of new_data from k on.
RECURSIVE update_items(_, _, _)
update_items(data, new_data, k) ==
    IF k > Len(new_data) THEN data
    ELSE update_items(update_item(data, new_data[k].key, new_data[k].value),
                      new_data, k + 1)

\* updated_rows of update_data: the rows (from 0) of the keys found.
updated_rows(data, new_data) ==
    {j - 1 : j \in {j \in 1..Len(data) :
                      \E k \in 1..Len(new_data) : new_data[k].key = data[j].key}}

\* SubtitleTableModel.update_data
update_data(M, new_data) ==
    LET M1 == [M EXCEPT !._data = update_items(@, new_data, 1)]
    IN  IF updated_rows(M._data, new_data) # {}
        THEN Emit(M1, "dataChanged")
        ELSE M1

\* The documents an optimization thread delivers with its update_all
\* signal: the keys are those of the thread's own numbering.
Delivered ==
    {<<>>,
     <<[key |-> "1", start_time |-> 0, end_time |-> 1500,
        original_subtitle |-> "a b", translated_subtitle |-> "AB"]>>,
     <<[key |-> "2", start_time |-> 1000, end_time |-> 2000,
        original_subtitle |-> "b", translated_subtitle |-> "B"],
       [key |-> "5", start_time |-> 2000, end_time |-> 3000,
        original_subtitle |-> "c", translated_subtitle |-> "C"]>>}

\* The record an operation on the document starts from.
Applied(op, args) ==
    [model EXCEPT !.op = op, !.args = args, !.emitted = <<>>, !.budget = @ - 1]

\* The record the slot of the update_all signal of a thread starts from.
Signalled(op, args) ==
    [model EXCEPT !.op = op, !.args = args, !.emitted = <<>>]

\* The state after an operation on the document that led to M.  An
\* exception that leaves the handler ends the process unless an excepthook
\* is installed.
Shows(M) ==
    /\ M.budget >= 0
    /\ model' = [M EXCEPT !.raised = FALSE]
    /\ IF M.raised
       THEN \E hook \in BOOLEAN : host' = IF hook THEN "running" ELSE "aborted"
       ELSE host' = host
    /\ UNCHANGED batchVars
    /\ UNCHANGED sub

\* show_context_menu with the rows of the selection (ascending): without
\* a selection nothing is shown; otherwise the menu is opened with the
\* rows bound to its merge action, and events are served while it is open.
show_context_menu(M, rows) ==
    IF rows = <<>> THEN M ELSE [M EXCEPT !.menu = rows]

\* keyPressEvent with Ctrl+M and the rows of the selection (ascending).
keyPressEvent(M, rows) ==
    IF Len(rows) > 1 THEN merge_selected_rows(M, rows) ELSE M

\* A cell of the table is edited (the view calls setData with EditRole; a
\* call with another role changes nothing).
SetData ==
    /\ Alive
    /\ model.menu = <<>>
    /\ \E row \in 0..(Len(model._data) - 1), col \in 0..3, value \in EditValues,
       role \in {"EditRole", "DisplayRole"} :
        Shows(setData(Applied("setData", [row |-> row, col |-> col, value |-> value,
                                          role |-> role]),
                      row, col, value, role))

\* Ctrl+M with some rows of the table selected.
KeyPressMerge ==
    /\ Alive
    /\ model.menu = <<>>
    /\ \E rs \in SUBSET (0..(Len(model._data) - 1)) :
         Shows(keyPressEvent(Applied("keyPressEvent", sorted(rs)), sorted(rs)))

\* A right click on the table with some rows selected.
ShowContextMenu ==
    /\ Alive
    /\ model.menu = <<>>
    /\ \E rs \in SUBSET (0..(Len(model._data) - 1)) :
         Shows(show_context_menu(Applied("show_context_menu", sorted(rs)), sorted(rs)))

\* The merge action of the open menu is triggered (it is enabled when
\* more than one row was read): merge_selected_rows runs with the rows
\* read when the menu was opened, on the document as it is now.
MenuMerge ==
    /\ Alive
    /\ Len(model.menu) > 1
    /\ Shows(merge_selected_rows(
                [model EXCEPT !.op = "merge_selected_rows", !.args = model.menu,
                              !.emitted = <<>>, !.menu = <<>>],
                model.menu))

\* The open menu is closed without an action.
MenuClose ==
    /\ Alive
    /\ model.menu # <<>>
    /\ Shows([model EXCEPT !.menu = <<>>, !.op = "menu_close", !.args = <<>>,
                           !.emitted = <<>>])

\* merge_selected_rows called on its own with rows of the document.
MergeSelectedRows ==
    /\ Alive
    /\ \E rs \in SUBSET (0..(Len(model._data) - 1)) :
         Shows(merge_selected_rows(Applied("merge_selected_rows", sorted(rs)), sorted(rs)))

\* The update_all signal of an optimization thread is delivered.
UpdateAll ==
    /\ Alive
    /\ \E data \in Delivered :
         Shows(update_all(Signalled("update_all", data), data))

\* The update signal of an optimization thread is delivered.
UpdateData ==
    /\ Alive
    /\ \E new_data \in Updates :
        Shows(update_data(Applied("update_data", new_data), new_data))

NextDoc ==
    \/ SetData
    \/ KeyPressMerge
    \/ ShowContextMenu
    \/ MenuMerge
    \/ MenuClose
    \/ UpdateAll

\* A subtitle file of up to MaxRows cues has been loaded.
InitDoc ==
    /\ task_cards = <<>>
    /\ removed_cards = <<>>
    /\ create_threads = <<>>
    /\ processing = FALSE
    /\ start_all_button = TRUE
    /\ cancel_button = FALSE
    /\ add_file_button = TRUE
    /\ clear_all_button = TRUE
    /\ task_type_combo = TRUE
    /\ host = "running"
    /\ batch_fin = -1
    /\ ev = <<>>
    /\ budget = MaxWork
    /\ sub = NewInterface
    /\ \E n \in 0..MaxRows : model = NewModel(Loaded(n))

SpecDoc == InitDoc /\ [][NextDoc]_vars

\* merge_selected_rows called on its own, on a document that was loaded,
\* edited or delivered by a thread.
NextMergeCall ==
    \/ MergeSelectedRows
    \/ SetData
    \/ UpdateAll

SpecMergeCall == InitDoc /\ [][NextMergeCall]_vars

\* The signals of an optimization thread on a loaded document.
NextPartial ==
    \/ UpdateData
    \/ UpdateAll

SpecPartial == InitDoc /\ [][NextPartial]_vars

TypeOK ==
    /\ processing \in BOOLEAN
    /\ host \in {"running", "aborted"}
    /\ budget >= 0
    /\ batch_fin >= -1
    /\ \A i \in 1..Len(task_cards) : task_cards[i].status \in Statuses

\* ------------------------------------------------------------ properties
\* The handler the last step ran, and the card it ran on (its index in
\* the list; 0 for a report delivered to a card removed from the list).
Op  == IF ev = <<>> THEN "none" ELSE ev[1].op
Arg == IF ev = <<>> THEN 0 ELSE ev[1].card

Count(log, op) == Cardinality({k \in 1..Len(log) : log[k].op = op})
Has(log, op)   == \E k \in 1..Len(log) : log[k].op = op

AllDone(cards) == \A i \in 1..Len(cards) : cards[i].status \in Terminal

\* No worker is running and no report of a worker is waiting for
\* delivery, of the cards of the list and of the cards removed from it.
Quiescent ==
    /\ \A i \in 1..Len(task_cards) :
          Live(task_cards[i]) = 0 /\ task_cards[i].qfin = 0 /\ task_cards[i].qerr = 0
    /\ \A k \in 1..Len(removed_cards) :
          removed_cards[k].live = 0 /\ removed_cards[k].qfin = 0 /\ removed_cards[k].qerr = 0

\* The program's part of a card (owed is bookkeeping of the model).
Program(c) == [path |-> c.path, type |-> c.type, status |-> c.status,
               running |-> c.running, orphans |-> c.orphans,
               qfin |-> c.qfin, qerr |-> c.qerr, nfin |-> c.nfin, nerr |-> c.nerr]

\* C1: while a batch is active, when the error report of a Job the
\* scheduler has started is handled, the Job is Failed and the scheduler
\* advances: it starts the next Job that is not Completed or Failed, or,
\* when none is left, it signals batch_finished.
C1_ErrorAdvancesBatch ==
    [][\A i \in 1..Len(task_cards) :
         (processing /\ task_cards[i].nfin > 0 /\ Op' = "on_error" /\ Arg' = i) =>
            /\ task_cards'[i].status = "FAILED"
            /\ IF \E j \in 1..Len(task_cards) :
                     j # i /\ task_cards[j].status \notin Terminal
               THEN Has(ev', "select")
               ELSE Has(ev', "on_batch_finished")]_vars

\* C2: in a batch started on a list with at least one Job, batch_finished
\* is signalled at most once, and it has been signalled once every Job is
\* Completed or Failed and every worker has reported.
C2_BatchFinishedExactlyOnce ==
    /\ batch_fin <= 1
    /\ (batch_fin >= 0 /\ AllDone(task_cards) /\ Quiescent) => batch_fin = 1

\* C3: at most one Job of the list has a running worker.
C3_AtMostOneActiveWorker ==
    Cardinality({i \in 1..Len(task_cards) : Live(task_cards[i]) > 0}) <= 1

\* C4: start_batch, called while a batch is active and neither finished nor
\* cancelled, starts no worker, registers no handler and changes no state.
C4_StartWhileActiveRejected ==
    [][(processing /\ batch_fin = 0 /\ Op' = "start_batch_process") =>
          /\ ~Has(ev', "thread_start")
          /\ Len(task_cards') = Len(task_cards)
          /\ \A i \in 1..Len(task_cards) : Program(task_cards'[i]) = Program(task_cards[i])
          /\ UNCHANGED <<processing, start_all_button, cancel_button,
                         add_file_button, clear_all_button>>]_vars

\* C5: start_batch on an empty list changes neither the processing flag
\* nor the enabled state of the start, cancel, add and clear controls.
C5_EmptyBatchNoStateChange ==
    [][(Len(task_cards) = 0 /\ Op' = "start_batch_process") =>
          UNCHANGED <<processing, start_all_button, cancel_button,
                      add_file_button, clear_all_button>>]_vars

\* C6: when cancel_batch returns, every Job is Completed, Failed or
\* Pending; none is Transcribing, Optimizing or Generating.
C6_CancelBatchLeavesNoneRunning ==
    Op = "cancel_batch_process" =>
        \A i \in 1..Len(task_cards) :
            task_cards[i].status \in {"COMPLETED", "FAILED", "PENDING"}

\* C7: while processing is true, remove and clear_all leave the list as it
\* is; while it is false, remove deletes exactly the card it was given and
\* clear_all leaves the list empty.
C7_RemoveAndClearGuarded ==
    [][/\ (Op' \in {"remove_task_card", "clear_all_tasks"} /\ processing) =>
             task_cards' = task_cards
       /\ (Op' = "remove_task_card" /\ ~processing) =>
             /\ Len(task_cards') = Len(task_cards) - 1
             /\ \A j \in 1..Len(task_cards') :
                   task_cards'[j] = IF j < Arg' THEN task_cards[j] ELSE task_cards[j + 1]
       /\ (Op' = "clear_all_tasks" /\ ~processing) => task_cards' = <<>>]_vars

\* A removal was refused while a batch was active.
C7_Witness ==
    /\ Op = "remove_task_card"
    /\ processing
    /\ Has(ev, "warning")
    /\ Len(task_cards) >= 1

\* C8: every Job the scheduler starts, in start_batch and in each advance
\* step, is at that moment the first Job of the list that is neither
\* Completed nor Failed; and the handlers of the scheduler start no other.
C8_StartsFirstUnfinished ==
    \A k \in 1..Len(ev) :
        /\ ev[k].op = "select" =>
              /\ ev[k].snap[ev[k].card].status \notin Terminal
              /\ \A j \in 1..(ev[k].card - 1) : ev[k].snap[j].status \in Terminal
              /\ k < Len(ev) /\ ev[k + 1].op = "thread_start" /\ ev[k + 1].card = ev[k].card
        /\ (ev[k].op = "thread_start" /\ Op # "start") =>
              k > 1 /\ ev[k - 1].op = "select" /\ ev[k - 1].card = ev[k].card

\* A Job reset to Pending by cancel was selected again where it stands,
\* ahead of a later Job that is waiting.
C8_Witness ==
    /\ Op = "cancel"
    /\ \E k \in 1..Len(ev) : ev[k].op = "select" /\ ev[k].card = Arg
    /\ \E j \in (Arg + 1)..Len(task_cards) : task_cards[j].status = "PENDING"

\* C9: of two Jobs A before B, both not Completed or Failed when start_batch
\* was called, the scheduler does not start B in that batch before it has
\* started A in it.
C9_StartsInListOrder ==
    \A k \in 1..Len(ev) :
        ev[k].op = "select" =>
            \A j \in 1..(ev[k].card - 1) : ~ev[k].snap[j].owed

\* C10: start_batch on a list with Jobs, all of them Completed or Failed,
\* starts no worker and calls on_batch_finished exactly once.
C10_AllDoneFinishesAtOnce ==
    [][(Op' = "start_batch_process" /\ Len(task_cards) >= 1 /\ AllDone(task_cards)) =>
          /\ Count(ev', "on_batch_finished") = 1
          /\ ~Has(ev', "thread_start")
          /\ \A i \in 1..Len(task_cards) : Live(task_cards'[i]) = Live(task_cards[i])]_vars

\* start_batch has just run on a list whose Jobs were all done.
C10_Witness ==
    /\ Op = "start_batch_process"
    /\ Len(task_cards) >= 1
    /\ AllDone(task_cards)
    /\ Has(ev, "on_batch_finished")
    /\ ~Has(ev, "select")

\* C11: on_batch_finished is only called when every Job of the list is
\* Completed or Failed, at the moment of the call and when the handler
\* that made the call returns; no Pending or running Job remains.
C11_BatchFinishedOnlyWhenAllDone ==
    \A k \in 1..Len(ev) :
        ev[k].op = "on_batch_finished" =>
            /\ \A i \in DOMAIN ev[k].snap.statuses : ev[k].snap.statuses[i] \in Terminal
            /\ AllDone(task_cards)

\* The last Job of a list of two or more reported success and the advance
\* step called on_batch_finished.
C11_Witness ==
    /\ Op = "on_finished"
    /\ Has(ev, "on_batch_finished")
    /\ Len(task_cards) >= 2
    /\ AllDone(task_cards)

\* C12: whenever on_batch_finished has been called and the process keeps
\* running, the scheduler is idle when the handler returns: processing
\* false, start, add and clear enabled, cancel disabled, for every policy.
C12_DispatcherEndsIdle ==
    (Has(ev, "on_batch_finished") /\ host = "running") =>
        /\ ~processing
        /\ start_all_button
        /\ add_file_button
        /\ clear_all_button
        /\ ~cancel_button

\* C13: under the Suspend and Shutdown policies, a call of
\* on_batch_finished presents the countdown dialog (before any suspend or
\* shutdown command is issued).
C13_CountdownDialogPresented ==
    \A k \in 1..Len(ev) :
        (ev[k].op = "on_batch_finished" /\ ev[k].snap.todo \in {"SUSPEND", "SHUTDOWN"}) =>
            \E j \in (k + 1)..Len(ev) : ev[j].op = "dialog"

\* C14: start on a Completed Job only gives a warning: no worker is
\* created, the Job stays Completed, no card, connection or queued report
\* changes, and the scheduler neither selects a Job nor signals
\* batch_finished.
C14_StartCompletedIsNoOp ==
    [][(Op' = "start" /\ task_cards[Arg'].status = "COMPLETED") =>
          /\ Has(ev', "warning")
          /\ ~Has(ev', "thread_start")
          /\ ~Has(ev', "select")
          /\ ~Has(ev', "on_batch_finished")
          /\ task_cards' = task_cards
          /\ UNCHANGED <<processing, host, batch_fin>>]_vars

\* start was refused on a Completed Job.
C14_Witness ==
    /\ Op = "start"
    /\ task_cards[Arg].status = "COMPLETED"
    /\ Has(ev, "warning")

\* C15: a Job the scheduler has just started has exactly one connection of
\* its finished signal and exactly one of its error signal to the advance
\* handlers.
C15_OneContinuationEach ==
    \A k \in 1..Len(ev) :
        ev[k].op = "select" =>
            /\ task_cards[ev[k].card].nfin = 1
            /\ task_cards[ev[k].card].nerr = 1

\* C16: after cancel(job) the Job is Pending and has no running worker;
\* and a second cancel(job) right after the first leaves the list, every
\* status and the workers of every Job as the first left them.
C16_CancelStopsAndIsIdempotent ==
    [][/\ Op' = "cancel" =>
             /\ task_cards'[Arg'].status = "PENDING"
             /\ Live(task_cards'[Arg']) = 0
       /\ (Op = "cancel" /\ Op' = "cancel" /\ Arg' = Arg) =>
             /\ Len(task_cards') = Len(task_cards)
             /\ \A i \in 1..Len(task_cards) :
                   /\ task_cards'[i].status = task_cards[i].status
                   /\ Live(task_cards'[i]) = Live(task_cards[i])]_vars

\* C17: cancel_batch, in any state, leaves processing false; every Job
\* keeps its status (Pending stays Pending, Completed and Failed stay so),
\* no Job gains a worker, and a Job without a worker has none afterwards.
C17_CancelBatchKeepsPendingAndDone ==
    [][Op' = "cancel_batch_process" =>
          /\ ~processing'
          /\ Len(task_cards') = Len(task_cards)
          /\ \A i \in 1..Len(task_cards) :
                /\ task_cards'[i].status = task_cards[i].status
                /\ Live(task_cards'[i]) <= Live(task_cards[i])
                /\ task_cards'[i].qfin = task_cards[i].qfin
                /\ task_cards'[i].qerr = task_cards[i].qerr]_vars

\* cancel_batch has run on a list with a Completed Job and a Pending Job
\* that has no worker, and with a Pending Job whose worker it stopped.
C17_Witness ==
    /\ Op = "cancel_batch_process"
    /\ ~processing
    /\ Has(ev, "terminate")
    /\ \E i \in 1..Len(task_cards) : task_cards[i].status = "COMPLETED"
    /\ \E i \in 1..Len(task_cards) :
          /\ task_cards[i].status = "PENDING"
          /\ Live(task_cards[i]) = 0
          /\ task_cards[i].nfin = 0

\* C18: no two Jobs of the list have the same source file path.
C18_PathsUnique ==
    \A i, j \in 1..Len(task_cards) :
        i # j => task_cards[i].path # task_cards[j].path

\* C19: remove and clear_all never delete a Job that has a running
\* worker.
C19_RunningJobNotRemoved ==
    [][/\ (Op' = "remove_task_card" /\ Live(task_cards[Arg']) > 0) =>
             task_cards' = task_cards
       /\ Op' = "clear_all_tasks" =>
             \A i \in 1..Len(task_cards) :
                Live(task_cards[i]) > 0 =>
                   \E j \in 1..Len(task_cards') : task_cards'[j] = task_cards[i]]_vars

\* C20: the intake queue is first in, first out: the paths taken from the
\* queue and loaded, followed by the paths still in the queue, are the
\* paths given to enqueue, in the order they were given, over all calls.
C20_IntakeIsFifo ==
    sub.enqueued = sub.loads \o sub.file_queue

\* Paths of two selections have been loaded from the queue, in an order
\* that differs from the reverse, and one more is waiting.
C20_Witness ==
    /\ Len(sub.loads) >= 3
    /\ sub.loads[1] # sub.loads[2]
    /\ Len(sub.file_queue) >= 1
    /\ sub.file_queue[1] # sub.loads[3]

\* C21: _process_next_file on an empty queue does nothing and raises
\* nothing: the queue stays empty, the current task, the loaded document
\* and the running threads are unchanged, and the process keeps running.
C21_DequeueEmptyIsNoOp ==
    [][(sub'.op = "_process_next_file" /\ sub.file_queue = <<>>) =>
          /\ sub'.file_queue = <<>>
          /\ sub'.task = sub.task
          /\ sub'.data = sub.data
          /\ sub'.threads = sub.threads
          /\ sub'.loads = sub.loads
          /\ host' = host]_vars

\* _process_next_file has run on the queue a drained selection left
\* empty, with a task loaded.
C21_Witness ==
    /\ sub.op = "_process_next_file"
    /\ sub.file_queue = <<>>
    /\ sub.enqueued # <<>>
    /\ sub.loads = sub.enqueued
    /\ sub.task # 0

\* C22: when an optimization thread reports, finished or error, while the
\* queue is not empty, the handler takes exactly the path at the head of
\* the queue, loads it and starts an optimization thread for it.
C22_CompletionDrainsQueue ==
    [][(/\ sub'.op \in {"on_subtitle_optimization_finished", "on_subtitle_optimization_error"}
        /\ sub.file_queue # <<>>) =>
          /\ sub'.file_queue = Tail(sub.file_queue)
          /\ sub'.loads = Append(sub.loads, Head(sub.file_queue))
          /\ sub'.task = Head(sub.file_queue)
          /\ Len(sub'.threads) = Len(sub.threads)
          /\ sub'.threads[Len(sub'.threads)] = Head(sub.file_queue)]_vars

\* ----------------------------------------- properties of the document
\* The fields of an entry other than its key.
Content(e) == [start_time |-> e.start_time, end_time |-> e.end_time,
               original_subtitle |-> e.original_subtitle,
               translated_subtitle |-> e.translated_subtitle]

Contents(d) == [j \in 1..Len(d) |-> Content(d[j])]

\* rows (counted from 0, ascending) are consecutive.
Contiguous(rows) == \A k \in 1..(Len(rows) - 1) : rows[k + 1] = rows[k] + 1

\* The texts of the entries lo..hi of d, in document order, with one space
\* between the texts of two entries.
RECURSIVE OriginalsOf(_, _, _)
OriginalsOf(d, lo, hi) ==
    IF hi = lo THEN d[lo].original_subtitle
    ELSE OriginalsOf(d, lo, hi - 1) \o " " \o d[hi].original_subtitle

RECURSIVE TranslationsOf(_, _, _)
TranslationsOf(d, lo, hi) ==
    IF hi = lo THEN d[lo].translated_subtitle
    ELSE TranslationsOf(d, lo, hi - 1) \o " " \o d[hi].translated_subtitle

\* The contents of the entries of d from j on whose row is not in rows.
RECURSIVE Unselected(_, _, _)
Unselected(d, rows, j) ==
    IF j > Len(d) THEN <<>>
    ELSE IF \E k \in 1..Len(rows) : rows[k] = j - 1
    THEN Unselected(d, rows, j + 1)
    ELSE <<Content(d[j])>> \o Unselected(d, rows, j + 1)

\* merge_selected_rows has run with two rows or more in the step to m,
\* from the menu, from Ctrl+M or called on its own.
MergeRan(m) ==
    /\ m.op \in {"merge_selected_rows", "keyPressEvent"}
    /\ Len(m.args) >= 2

\* The keys of d are 1..Len(d), in order.
Dense(d) == \A j \in 1..Len(d) : d[j].key = format(j)

\* C23: merge_rows on two or more consecutive rows that the document has
\* (a selection read before the document shrank raises) puts one entry at the
\* place of the first selected row, with the start time of the first and
\* the end time of the last selected row and with the original and the
\* translated texts of the selected rows joined by single spaces in
\* document order; the entries before and after keep content and order.
C23_MergeContiguous ==
    [][(/\ MergeRan(model')
        /\ model'.args[Len(model'.args)] < Len(model._data)
        /\ Contiguous(model'.args)) =>
          LET rows == model'.args
              lo   == rows[1] + 1
              hi   == rows[Len(rows)] + 1
              old  == model._data
              new  == model'._data
          IN  /\ Len(new) = Len(old) - Len(rows) + 1
              /\ new[lo].start_time = old[lo].start_time
              /\ new[lo].end_time = old[hi].end_time
              /\ new[lo].original_subtitle = OriginalsOf(old, lo, hi)
              /\ new[lo].translated_subtitle = TranslationsOf(old, lo, hi)
              /\ \A j \in 1..(lo - 1) : Content(new[j]) = Content(old[j])
              /\ \A j \in (lo + 1)..Len(new) :
                    Content(new[j]) = Content(old[j + Len(rows) - 1])]_vars

\* Rows 1 and 2 of {1:(0,1000,a,A), 2:(1000,2000,b,B), 3:(2000,3000,c,C)}
\* have been merged into {1:(0,2000,"a b","A B"), 2:(2000,3000,c,C)}.
C23_Witness ==
    /\ model.op = "merge_selected_rows"
    /\ model.args = <<0, 1>>
    /\ model._data =
          <<[key |-> "1", start_time |-> 0, end_time |-> 2000,
             original_subtitle |-> "a b", translated_subtitle |-> "A B"],
            [key |-> "2", start_time |-> 2000, end_time |-> 3000,
             original_subtitle |-> "c", translated_subtitle |-> "C"]>>

\* C24: after a merge_rows of two or more rows that changed the document
\* (layoutChanged was emitted) the keys of the document are exactly 1..N
\* in iteration order.
C24_MergeDenseKeys ==
    (MergeRan(model) /\ model.emitted # <<>>) => Dense(model._data)

\* Rows in the middle of a document have been merged: entries before
\* them and entries after them were kept.
C24_Witness ==
    /\ model.op = "merge_selected_rows"
    /\ Len(model.args) >= 2
    /\ model.args[1] >= 1
    /\ Len(model._data) >= model.args[1] + 2
    /\ model.emitted = <<"layoutChanged">>
    /\ Dense(model._data)

\* C25: after update_all the keys of the document are exactly 1..N in
\* iteration order, whatever keys the delivered entries had.
C25_BulkReplaceDenseKeys ==
    model.op = "update_all" => Dense(model._data)

\* C26: merge_rows with no row or one row changes nothing in the document
\* and emits no change signal.
C26_MergeOfOneIsNoOp ==
    [][(model'.op = "merge_selected_rows" /\ Len(model'.args) < 2) =>
          /\ model'._data = model._data
          /\ model'.emitted = <<>>]_vars

\* merge_rows has run with a single row of a document that has entries.
C26_Witness ==
    /\ model.op = "merge_selected_rows"
    /\ Len(model.args) = 1
    /\ Len(model._data) >= 2
    /\ model.emitted = <<>>

\* C27: set_cell on the start or end time with a string that is not a
\* timestamp leaves the document as it is and emits no change signal.
C27_MalformedTimeRejected ==
    [][(/\ model'.op = "setData"
        /\ model'.args.role = "EditRole"
        /\ model'.args.col \in {0, 1}
        /\ ~fromString(model'.args.value).valid) =>
          /\ model'._data = model._data
          /\ model'.emitted = <<>>]_vars

\* C28: every entry of the document has end_time > start_time.
C28_EndAfterStart ==
    \A j \in 1..Len(model._data) : model._data[j].end_time > model._data[j].start_time

\* C29: set_cell changes only the field it addresses: the number of
\* entries, every key, every other entry and the other three fields of
\* the edited entry stay as they are.
C29_PointEditIsLocal ==
    [][model'.op = "setData" =>
          LET a   == model'.args
              old == model._data
              new == model'._data
              r   == a.row + 1
          IN  /\ Len(new) = Len(old)
              /\ \A j \in 1..Len(old) : new[j].key = old[j].key
              /\ \A j \in 1..Len(old) : j # r => new[j] = old[j]
              /\ a.col # 0 => new[r].start_time = old[r].start_time
              /\ a.col # 1 => new[r].end_time = old[r].end_time
              /\ a.col # 2 => new[r].original_subtitle = old[r].original_subtitle
              /\ a.col # 3 => new[r].translated_subtitle = old[r].translated_subtitle
              /\ a.role # "EditRole" => new = old]_vars

\* The start time of an entry in the middle of the document has been set
\* to 00:00:00.500, and its end time is another.
C29_Witness ==
    /\ model.op = "setData"
    /\ model.args.role = "EditRole"
    /\ model.args.col = 0
    /\ model.args.row = 1
    /\ model.args.value.str = "00:00:00.500"
    /\ Len(model._data) >= 3
    /\ model._data[2].start_time = 500
    /\ model._data[2].end_time = 2000
    /\ model.emitted = <<"dataChanged">>

\* C30: merge_rows of two or more rows, consecutive or not, removes only
\* the selected rows: the document has N - |rows| + 1 entries, and the
\* entries that were not selected are all there, content and order kept.
C30_MergeKeepsUnselected ==
    [][(MergeRan(model') /\ model'.args[Len(model'.args)] < Len(model._data)) =>
          LET rows == model'.args
              old  == model._data
              new  == model'._data
          IN  /\ Len(new) = Len(old) - Len(rows) + 1
              /\ \E p \in 1..Len(new) :
                    RemoveAt(Contents(new), p) = Unselected(old, rows, 1)]_vars

\* C31: while processing is false, the handling of a worker's success or
\* error report and a per-job cancel do not make the scheduler start a
\* Job or call the completion action.
C31_InactiveSchedulerStartsNothing ==
    [][(~processing /\ Op' \in {"on_finished", "on_error", "cancel"}) =>
          /\ ~Has(ev', "select")
          /\ ~Has(ev', "on_batch_finished")]_vars

\* C32: a Job that cancel has just set to Pending, and that has not been
\* started since, is still Pending after a success or error report of one
\* of its workers is delivered.
C32_CancelledStaysPending ==
    [][\A i \in 1..Len(task_cards) :
         (/\ Op = "cancel" /\ Arg = i
          /\ ~Has(ev, "thread_start")
          /\ task_cards[i].status = "PENDING"
          /\ Op' \in {"on_finished", "on_error"} /\ Arg' = i) =>
            task_cards'[i].status = "PENDING"]_vars

\* C33: when the scheduler's advance handler runs in the handling of the
\* success or error report of a Job, the Job is Completed or Failed at
\* every scan, and no scan selects it.  (A Job removed from the list
\* before its report is handled is in no scan.)
C33_ReportedJobNotReselected ==
    (Op \in {"on_finished", "on_error"} /\ Arg # 0) =>
        \A k \in 1..Len(ev) :
            ev[k].op = "select" =>
                /\ ev[k].card # Arg
                /\ ev[k].snap[Arg].status \in Terminal

\* The success report of a Job has been handled, the Job is Completed and
\* the scan has selected another Job, further down the list.
C33_Witness ==
    /\ Op = "on_finished"
    /\ Arg # 0
    /\ task_cards[Arg].status = "COMPLETED"
    /\ \E k \in 1..Len(ev) :
          ev[k].op = "select" /\ ev[k].card > Arg

\* C34: once an optimization run is under way, no path is taken from the
\* queue while the path taken before it (a readable file, still the one
\* loaded) waits for its optimization run: every enqueued path gets its run before the next one is loaded,
\* also when the paths were enqueued while another file was running.
C34_EveryEnqueuedPathIsProcessed ==
    [][(/\ Len(sub'.loads) > Len(sub.loads)
        /\ sub.threads # <<>>
        /\ sub.fresh # 0
        /\ sub.fresh \notin Unreadable) =>
          sub.task # sub.fresh]_vars

\* C35: the update_all of an optimization thread is applied only to the
\* document loaded from the thread's file: the table shows a document of
\* the same file before and after it.
C35_UpdatesReachOwnDocumentOnly ==
    [][sub'.op = "update_all" => sub'.data = sub.data]_vars

\* The items of the update upd whose key is the key of entry e.
ItemsFor(upd, e) == {k \in 1..Len(upd) : upd[k].key = e.key}

\* C36: update_data changes only text fields of the entries whose key
\* occurs in the update: the number of entries, their keys, order and
\* times stay, an entry whose key does not occur stays as it is, a value
\* without a line break leaves the original text alone, and dataChanged
\* is emitted only if some key of the update is a key of the document.
C36_PartialUpdateIsLocal ==
    [][model'.op = "update_data" =>
          LET upd == model'.args
              old == model._data
              new == model'._data
          IN  /\ Len(new) = Len(old)
              /\ \A j \in 1..Len(old) :
                    /\ new[j].key = old[j].key
                    /\ new[j].start_time = old[j].start_time
                    /\ new[j].end_time = old[j].end_time
                    /\ ItemsFor(upd, old[j]) = {} => new[j] = old[j]
                    /\ (\A k \in ItemsFor(upd, old[j]) : Len(upd[k].value) = 1) =>
                          new[j].original_subtitle = old[j].original_subtitle
              /\ model'.emitted # <<>> =>
                    \E j \in 1..Len(old) : ItemsFor(upd, old[j]) # {}]_vars

\* An update with the key of no entry and, without a line break, the key
\* of the second entry has been applied to a document of two entries or
\* more: the translation of the second entry is the value.
C36_Witness ==
    /\ model.op = "update_data"
    /\ model.args = <<[key |-> "9", value |-> <<"T">>], [key |-> "2", value |-> <<"T">>]>>
    /\ Len(model._data) >= 2
    /\ model._data[2].key = "2"
    /\ model._data[2].original_subtitle = "b"
    /\ model._data[2].translated_subtitle = "T"
    /\ model.emitted = <<"dataChanged">>

====
